---- MODULE Spec2Model ----
(***************************************************************************)
(* Model of src/main.py: a Streamlit script that turns a question into SQL *)
(* with a language model (call_model, retry with exponential backoff),     *)
(* runs the SQL (execute_sql) and asks the model to summarise the result.  *)
(*                                                                         *)
(* One script run is modelled from its first line to its last; a user      *)
(* interaction starts the next run.  call_model is modelled one loop       *)
(* iteration per step, every other statement group as one step.            *)
(***************************************************************************)
EXTENDS Integers, Sequences, FiniteSets, TLC

(* ------------------------------ bounds -------------------------------- *)
MaxQLen == 1          \* longest question typed into the text input
MaxRows == 2          \* most rows a query returns
MaxCols == 1          \* most columns a query returns
MaxRuns == 1          \* script runs after the first one
MaxRetriesArg == 4    \* largest max_retries passed to call_model on its own

(* -------------------------- program constants ------------------------- *)
DefaultMaxRetries == 3

(* ------------------------------ domains ------------------------------- *)
Chars == {" ", "q"}
Whitespace == {" "}
Cells == {0, 500}
Texts == {"", "SELECT 1"}

SeqsUpTo(S, n) == UNION {[1..k -> S] : k \in 0..n}

Questions == SeqsUpTo(Chars, MaxQLen)

(* Python values: None, and a str *)
None == [isNone |-> TRUE, text |-> ""]
Str(s) == [isNone |-> FALSE, text |-> s]

(* truthiness of a str-or-None value, as in `if answer:` *)
Truthy(v) == ~v.isNone /\ v.text # ""

(* str.strip(): drop leading and trailing whitespace *)
RECURSIVE lstrip(_)
lstrip(s) == IF s # <<>> /\ Head(s) \in Whitespace THEN lstrip(Tail(s)) ELSE s

RECURSIVE rstrip(_)
rstrip(s) == IF s # <<>> /\ s[Len(s)] \in Whitespace
             THEN rstrip(SubSeq(s, 1, Len(s) - 1)) ELSE s

(* variant: the question is compared as typed *)
strip_none(s) == s

strip(s) == rstrip(lstrip(s))

(* ------------------------------ tables -------------------------------- *)
(* a DataFrame: number of columns and the rows, each a tuple of cells *)
EmptyDataFrame == [columns |-> 0, rows |-> <<>>]

DataFrame(c, rs) == [columns |-> c, rows |-> rs]

(* what a query that executes can come back as: at least one column *)
QueryResults ==
    UNION {{DataFrame(c, rs) : rs \in SeqsUpTo([1..c -> Cells], MaxRows)} : c \in 1..MaxCols}

(* DataFrame.empty: true when any axis has length 0 *)
empty(df) == df.columns = 0 \/ Len(df.rows) = 0

(* DataFrame.to_string(index=False) *)
to_string(df) ==
    IF empty(df) THEN [kind |-> "Empty DataFrame", header |-> df.columns, body |-> <<>>]
    ELSE [kind |-> "table", header |-> df.columns, body |-> df.rows]

(* --------------------------- model responses -------------------------- *)
(* a response object: whether it has the output_text attribute, and       *)
(* whether resp['output'][0]['content'][0]['text'] can be read            *)
Response(ho, ot, hn, nt) ==
    [has_output_text |-> ho, output_text |-> ot, has_nested |-> hn, nested_text |-> nt]

Responses ==
    {Response(TRUE, t, FALSE, "") : t \in Texts}
    \cup {Response(FALSE, "", TRUE, t) : t \in Texts}
    \cup {Response(TRUE, t, TRUE, u) : t \in Texts, u \in Texts}
    \cup {Response(FALSE, "", FALSE, "")}

(* a response with neither shape; also stands for 'no response' when create() raised *)
NoResponse == Response(FALSE, "", FALSE, "")

(* line 47: does the extraction expression evaluate without raising *)
Extractable(resp) == resp.has_output_text \/ resp.has_nested

(* variant: the nested payload is preferred when the response has both *)
ExtractText_nested_first(resp) ==
    IF resp.has_nested THEN resp.nested_text ELSE resp.output_text

(* line 47: resp.output_text if hasattr(resp, "output_text") else nested *)
ExtractText(resp) ==
    IF resp.has_output_text THEN resp.output_text ELSE resp.nested_text

(* ------------------------------ prompts ------------------------------- *)
SqlPrompt(q) == [template |-> "sql", question |-> q, results |-> to_string(EmptyDataFrame)]

SummarizePrompt(q, df) == [template |-> "summarize", question |-> q, results |-> to_string(df)]

NoResultsPrompt(q) == [template |-> "no_results", question |-> q, results |-> to_string(EmptyDataFrame)]

NoPrompt == [template |-> "none", question |-> <<>>, results |-> to_string(EmptyDataFrame)]

(* variant: a single row is not worth a summary *)
ResultPrompt_many(q, df) ==
    IF Len(df.rows) > 1 THEN SummarizePrompt(q, df) ELSE NoResultsPrompt(q)

(* variant: the 'no results' prompt also embeds the rendering of the table *)
ResultPrompt_leak(q, df) ==
    IF ~empty(df) THEN SummarizePrompt(q, df)
    ELSE [template |-> "no_results", question |-> q, results |-> to_string(df)]

(* lines 145-177 *)
ResultPrompt(q, df) == IF ~empty(df) THEN SummarizePrompt(q, df) ELSE NoResultsPrompt(q)

VARIABLES
    api_key,        \* whether OPENAI_API_KEY is set in the environment
    pc,             \* position of the script run
    conn,           \* "open" or "None"
    button,         \* st.button("Ask GPT") of this run
    user_question,  \* st.text_input of this run
    sql_prompt, sql_query, df_result, result_prompt, answer,
    cm,             \* call_model: "idle", "running", "returned"
    prompt, max_retries, attempt, ret,
    waits,          \* time.sleep arguments of the current call_model
    warnings,       \* st.warning events of the current call_model
    tries,          \* outcome of each attempt of the current call_model
    rets,           \* values returned by the call_model calls of this run
    out,            \* st.* events of this run, in order
    calls,          \* call_model / execute_sql invocations of this run
    submitted,      \* SQL strings handed to pd.read_sql_query in this run
    exec_outcome,   \* how the last execute_sql ended
    runs            \* script runs started by user interaction

vars == <<api_key, pc, conn, button, user_question, sql_prompt, sql_query,
          df_result, result_prompt, answer, cm, prompt, max_retries, attempt,
          ret, waits, warnings, tries, rets, out, calls, submitted, exec_outcome, runs>>

envVars == <<api_key, runs>>
uiVars == <<button, user_question>>
pipeVars == <<sql_prompt, sql_query, df_result, result_prompt, answer>>
cmVars == <<cm, prompt, max_retries, attempt, ret, waits, warnings, tries, rets>>
dbVars == <<submitted, exec_outcome>>

Event(kind, msg) == [kind |-> kind, msg |-> msg]

(* ----------------------------- call_model ----------------------------- *)
(* line 37: entry of call_model(prompt, max_retries) *)
CallModelEnter(p, m) ==
    /\ cm' = "running"
    /\ prompt' = p
    /\ max_retries' = m
    /\ attempt' = 0
    /\ ret' = None
    /\ waits' = <<>>
    /\ warnings' = <<>>
    /\ tries' = <<>>

(* variant: the wait grows linearly with the attempt *)
Backoff_linear(cause) ==
    LET wait == 2 * attempt IN
    /\ warnings' = Append(warnings, [attempt |-> attempt + 1, cause |-> cause, wait |-> wait])
    /\ out' = Append(out, Event("warning", "Model call failed"))
    /\ waits' = Append(waits, wait)
    /\ attempt' = attempt + 1

(* the frame of call_model is gone once its caller has the result *)
CallModelLeave ==
    /\ cm' = "idle"
    /\ prompt' = NoPrompt
    /\ max_retries' = DefaultMaxRetries
    /\ attempt' = 0
    /\ ret' = None
    /\ waits' = <<>>
    /\ warnings' = <<>>
    /\ tries' = <<>>

(* variant: the last failure is not reported, as no retry follows it *)
Backoff_quiet_last(cause) ==
    LET wait == 2 ^ attempt IN
    /\ IF attempt + 1 < max_retries
       THEN /\ warnings' = Append(warnings, [attempt |-> attempt + 1, cause |-> cause, wait |-> wait])
            /\ out' = Append(out, Event("warning", "Model call failed"))
       ELSE /\ warnings' = warnings
            /\ out' = out
    /\ waits' = Append(waits, wait)
    /\ attempt' = attempt + 1

(* variant: no wait after the last failure, as no retry follows it *)
Backoff_no_last_wait(cause) ==
    LET wait == 2 ^ attempt IN
    /\ warnings' = Append(warnings, [attempt |-> attempt + 1, cause |-> cause, wait |-> wait])
    /\ out' = Append(out, Event("warning", "Model call failed"))
    /\ waits' = IF attempt + 1 < max_retries THEN Append(waits, wait) ELSE waits
    /\ attempt' = attempt + 1

(* lines 48-51: the except branch of one loop iteration *)
Backoff(cause) ==
    LET wait == 2 ^ attempt IN
    /\ warnings' = Append(warnings, [attempt |-> attempt + 1, cause |-> cause, wait |-> wait])
    /\ out' = Append(out, Event("warning", "Model call failed"))
    /\ waits' = Append(waits, wait)
    /\ attempt' = attempt + 1

(* lines 41-47: an iteration whose create() returns and whose text is read *)
AttemptReturns ==
    /\ cm = "running"
    /\ attempt < max_retries
    /\ \E resp \in Responses :
          /\ Extractable(resp)
          /\ ret' = Str(ExtractText(resp))
          /\ rets' = Append(rets, Str(ExtractText(resp)))
          /\ tries' = Append(tries, [raised |-> FALSE, cause |-> "none", text |-> ExtractText(resp),
                                    received |-> TRUE, resp |-> resp])
    /\ cm' = "returned"
    /\ UNCHANGED <<prompt, max_retries, attempt, waits, warnings, out>>
    /\ UNCHANGED <<envVars, uiVars, pipeVars, dbVars, pc, conn, calls>>

(* variant: the loop bound is off by one *)
AttemptApiError_one_more ==
    /\ cm = "running"
    /\ attempt <= max_retries
    /\ tries' = Append(tries, [raised |-> TRUE, cause |-> "api_error", text |-> "",
                              received |-> FALSE, resp |-> NoResponse])
    /\ Backoff("api_error")
    /\ UNCHANGED <<cm, prompt, max_retries, ret, rets>>
    /\ UNCHANGED <<envVars, uiVars, pipeVars, dbVars, pc, conn, calls>>

(* lines 41-51: an iteration in which create() raises *)
AttemptApiError ==
    /\ cm = "running"
    /\ attempt < max_retries
    /\ tries' = Append(tries, [raised |-> TRUE, cause |-> "api_error", text |-> "",
                              received |-> FALSE, resp |-> NoResponse])
    /\ Backoff("api_error")
    /\ UNCHANGED <<cm, prompt, max_retries, ret, rets>>
    /\ UNCHANGED <<envVars, uiVars, pipeVars, dbVars, pc, conn, calls>>

(* lines 41-51: an iteration whose response has neither shape *)
AttemptMalformed ==
    /\ cm = "running"
    /\ attempt < max_retries
    /\ \E resp \in Responses :
          /\ ~Extractable(resp)
          /\ tries' = Append(tries, [raised |-> TRUE, cause |-> "malformed", text |-> "",
                                    received |-> TRUE, resp |-> resp])
    /\ Backoff("malformed")
    /\ UNCHANGED <<cm, prompt, max_retries, ret, rets>>
    /\ UNCHANGED <<envVars, uiVars, pipeVars, dbVars, pc, conn, calls>>

(* line 52: the loop ran out *)
RetriesExhausted ==
    /\ cm = "running"
    /\ attempt >= max_retries
    /\ ret' = None
    /\ rets' = Append(rets, None)
    /\ cm' = "returned"
    /\ UNCHANGED <<prompt, max_retries, attempt, waits, warnings, tries, out>>
    /\ UNCHANGED <<envVars, uiVars, pipeVars, dbVars, pc, conn, calls>>

(* ------------------------------ the script ---------------------------- *)
(* variant: the missing key is reported but the run is not stopped *)
CheckApiKey_no_stop ==
    /\ pc = "Startup"
    /\ IF ~api_key
       THEN out' = Append(out, Event("error", "OPENAI_API_KEY not set"))
       ELSE out' = out
    /\ pc' = "Connecting"
    /\ UNCHANGED <<envVars, uiVars, pipeVars, cmVars, dbVars, conn, calls>>

(* lines 13-18: the API key check; st.stop() ends the run *)
CheckApiKey ==
    /\ pc = "Startup"
    /\ IF ~api_key
       THEN /\ out' = Append(out, Event("error", "OPENAI_API_KEY not set"))
            /\ pc' = "Halted"
       ELSE /\ out' = out
            /\ pc' = "Connecting"
    /\ UNCHANGED <<envVars, uiVars, pipeVars, cmVars, dbVars, conn, calls>>

(* lines 29-35 and 69-71: connect, then render the title and the input *)
ConnectDb ==
    /\ pc = "Connecting"
    /\ \E connected \in BOOLEAN :
          IF connected
          THEN /\ conn' = "open"
               /\ out' = Append(out, Event("success", "Connected to PostgreSQL database successfully."))
          ELSE /\ conn' = "None"
               /\ out' = Append(out, Event("error", "Error connecting to PostgreSQL database"))
    /\ pc' = "Idle"
    /\ UNCHANGED <<envVars, uiVars, pipeVars, cmVars, dbVars, calls>>

(* line 73: the button was not pressed, the run ends *)
ButtonNotPressed ==
    /\ pc = "Idle"
    /\ ~button
    /\ pc' = "Rendered"
    /\ UNCHANGED <<envVars, uiVars, pipeVars, cmVars, dbVars, conn, out, calls>>

(* lines 73-75: blank question *)
BlankQuestion ==
    /\ pc = "Idle"
    /\ button
    /\ strip(user_question) = <<>>
    /\ out' = Append(out, Event("warning", "Please enter a question first."))
    /\ pc' = "Warned"
    /\ UNCHANGED <<envVars, uiVars, pipeVars, cmVars, dbVars, conn, calls>>

(* lines 73-76: a question to answer *)
AcceptQuestion ==
    /\ pc = "Idle"
    /\ button
    /\ strip(user_question) # <<>>
    /\ pc' = "BuildingSqlPrompt"
    /\ UNCHANGED <<envVars, uiVars, pipeVars, cmVars, dbVars, conn, out, calls>>

(* lines 78-137: build the SQL prompt and call the model with it *)
BuildSqlPrompt ==
    /\ pc = "BuildingSqlPrompt"
    /\ sql_prompt' = SqlPrompt(user_question)
    /\ CallModelEnter(sql_prompt', DefaultMaxRetries)
    /\ calls' = Append(calls, [fn |-> "call_model", arg |-> sql_prompt'])
    /\ pc' = "GeneratingSql"
    /\ UNCHANGED <<envVars, uiVars, dbVars, conn, out, rets,
                   sql_query, df_result, result_prompt, answer>>

(* variant: the first result is tested for truth, as the second one is *)
SqlGenerated_truthy ==
    /\ pc = "GeneratingSql"
    /\ cm = "returned"
    /\ sql_query' = ret
    /\ IF ~Truthy(sql_query')
       THEN /\ out' = Append(out, Event("error", "Error calling GPT API for SQL generation."))
            /\ pc' = "Failed"
       ELSE /\ out' = Append(out, Event("code", sql_query'.text))
            /\ pc' = "ExecutingQuery"
    /\ CallModelLeave
    /\ UNCHANGED <<envVars, uiVars, dbVars, conn, calls, rets,
                   sql_prompt, df_result, result_prompt, answer>>

(* lines 137-142: the first call returned *)
SqlGenerated ==
    /\ pc = "GeneratingSql"
    /\ cm = "returned"
    /\ sql_query' = ret
    /\ IF sql_query'.isNone
       THEN /\ out' = Append(out, Event("error", "Error calling GPT API for SQL generation."))
            /\ pc' = "Failed"
       ELSE /\ out' = Append(out, Event("code", sql_query'.text))
            /\ pc' = "ExecutingQuery"
    /\ CallModelLeave
    /\ UNCHANGED <<envVars, uiVars, dbVars, conn, calls, rets,
                   sql_prompt, df_result, result_prompt, answer>>

(* variant: a failed execution returns a table that keeps a column *)
execute_sql_keeps_column(sql) ==
    IF conn = "None"
    THEN /\ out' = Append(out, Event("error", "Database connection is not established."))
         /\ df_result' = EmptyDataFrame
         /\ exec_outcome' = "no_connection"
         /\ submitted' = submitted
    ELSE /\ submitted' = Append(submitted, sql)
         /\ \/ \E df \in QueryResults :
                  /\ df_result' = df
                  /\ exec_outcome' = "ok"
                  /\ out' = out
            \/ /\ df_result' = DataFrame(1, <<>>)
               /\ exec_outcome' = "error"
               /\ out' = Append(out, Event("error", "SQL execution error"))

(* variant: the connection handle is not tested before the query is run *)
execute_sql_no_guard(sql) ==
    /\ submitted' = Append(submitted, sql)
    /\ \/ /\ conn # "None"
          /\ \E df \in QueryResults :
                /\ df_result' = df
                /\ exec_outcome' = "ok"
                /\ out' = out
       \/ /\ df_result' = EmptyDataFrame
          /\ exec_outcome' = "error"
          /\ out' = Append(out, Event("error", "SQL execution error"))

(* lines 54-66: execute_sql(sql) *)
execute_sql(sql) ==
    IF conn = "None"
    THEN /\ out' = Append(out, Event("error", "Database connection is not established."))
         /\ df_result' = EmptyDataFrame
         /\ exec_outcome' = "no_connection"
         /\ submitted' = submitted
    ELSE /\ submitted' = Append(submitted, sql)
         /\ \/ \E df \in QueryResults :
                  /\ df_result' = df
                  /\ exec_outcome' = "ok"
                  /\ out' = out
            \/ /\ df_result' = EmptyDataFrame
               /\ exec_outcome' = "error"
               /\ out' = Append(out, Event("error", "SQL execution error"))

(* variant: a failed execution ends the pipeline *)
ExecuteQuery_abort ==
    /\ pc = "ExecutingQuery"
    /\ calls' = Append(calls, [fn |-> "execute_sql", arg |-> sql_query.text])
    /\ execute_sql(sql_query.text)
    /\ pc' = IF exec_outcome' = "ok" THEN "BuildingSummaryPrompt" ELSE "Failed"
    /\ UNCHANGED <<envVars, uiVars, cmVars, conn,
                   sql_prompt, sql_query, result_prompt, answer>>

(* line 143 *)
ExecuteQuery ==
    /\ pc = "ExecutingQuery"
    /\ calls' = Append(calls, [fn |-> "execute_sql", arg |-> sql_query.text])
    /\ execute_sql(sql_query.text)
    /\ pc' = "BuildingSummaryPrompt"
    /\ UNCHANGED <<envVars, uiVars, cmVars, conn,
                   sql_prompt, sql_query, result_prompt, answer>>

(* lines 145-178: choose the summary prompt and call the model with it *)
BuildSummaryPrompt ==
    /\ pc = "BuildingSummaryPrompt"
    /\ result_prompt' = ResultPrompt(user_question, df_result)
    /\ CallModelEnter(result_prompt', DefaultMaxRetries)
    /\ calls' = Append(calls, [fn |-> "call_model", arg |-> result_prompt'])
    /\ pc' = "GeneratingAnswer"
    /\ UNCHANGED <<envVars, uiVars, dbVars, conn, out, rets,
                   sql_prompt, sql_query, df_result, answer>>

(* variant: the answer is written before it is tested *)
AnswerGenerated_writes_first ==
    /\ pc = "GeneratingAnswer"
    /\ cm = "returned"
    /\ answer' = ret
    /\ IF Truthy(answer')
       THEN /\ out' = out \o <<Event("success", "Answer from GPT:"), Event("write", answer'.text)>>
            /\ pc' = "Done"
       ELSE /\ out' = out \o <<Event("write", answer'.text),
                               Event("error", "Error calling GPT API for final answer.")>>
            /\ pc' = "Failed"
    /\ CallModelLeave
    /\ UNCHANGED <<envVars, uiVars, dbVars, conn, calls, rets,
                   sql_prompt, sql_query, df_result, result_prompt>>

(* lines 178-183: the second call returned *)
AnswerGenerated ==
    /\ pc = "GeneratingAnswer"
    /\ cm = "returned"
    /\ answer' = ret
    /\ IF Truthy(answer')
       THEN /\ out' = out \o <<Event("success", "Answer from GPT:"), Event("write", answer'.text)>>
            /\ pc' = "Done"
       ELSE /\ out' = Append(out, Event("error", "Error calling GPT API for final answer."))
            /\ pc' = "Failed"
    /\ CallModelLeave
    /\ UNCHANGED <<envVars, uiVars, dbVars, conn, calls, rets,
                   sql_prompt, sql_query, df_result, result_prompt>>

(* the values every run starts from *)
FreshRun ==
    /\ pc' = "Startup"
    /\ conn' = "None"
    /\ sql_prompt' = NoPrompt
    /\ sql_query' = None
    /\ df_result' = EmptyDataFrame
    /\ result_prompt' = NoPrompt
    /\ answer' = None
    /\ CallModelLeave
    /\ rets' = <<>>
    /\ out' = <<>>
    /\ calls' = <<>>
    /\ submitted' = <<>>
    /\ exec_outcome' = "none"

(* Streamlit: a change of the input or a press of the button reruns the script *)
Interaction ==
    /\ pc \in {"Rendered", "Warned", "Done", "Failed"}
    /\ runs < MaxRuns
    /\ runs' = runs + 1
    /\ \E q \in Questions, b \in BOOLEAN :
          /\ user_question' = q
          /\ button' = b
    /\ FreshRun
    /\ UNCHANGED api_key

Init ==
    /\ api_key \in BOOLEAN
    /\ pc = "Startup"
    /\ conn = "None"
    /\ button = FALSE
    /\ user_question = <<>>
    /\ sql_prompt = NoPrompt
    /\ sql_query = None
    /\ df_result = EmptyDataFrame
    /\ result_prompt = NoPrompt
    /\ answer = None
    /\ cm = "idle"
    /\ prompt = NoPrompt
    /\ max_retries = DefaultMaxRetries
    /\ attempt = 0
    /\ ret = None
    /\ waits = <<>>
    /\ warnings = <<>>
    /\ tries = <<>>
    /\ rets = <<>>
    /\ out = <<>>
    /\ calls = <<>>
    /\ submitted = <<>>
    /\ exec_outcome = "none"
    /\ runs = 0

Next ==
    \/ CheckApiKey
    \/ ConnectDb
    \/ ButtonNotPressed
    \/ BlankQuestion
    \/ AcceptQuestion
    \/ BuildSqlPrompt
    \/ AttemptReturns
    \/ AttemptApiError
    \/ AttemptMalformed
    \/ RetriesExhausted
    \/ SqlGenerated
    \/ ExecuteQuery
    \/ BuildSummaryPrompt
    \/ AnswerGenerated
    \/ Interaction

Spec == Init /\ [][Next]_vars

(* the script is one sequential thread: a step that can be taken is taken; *)
(* only the next user interaction may never come                           *)
RunStep ==
    \/ CheckApiKey
    \/ ConnectDb
    \/ ButtonNotPressed
    \/ BlankQuestion
    \/ AcceptQuestion
    \/ BuildSqlPrompt
    \/ AttemptReturns
    \/ AttemptApiError
    \/ AttemptMalformed
    \/ RetriesExhausted
    \/ SqlGenerated
    \/ ExecuteQuery
    \/ BuildSummaryPrompt
    \/ AnswerGenerated

FairSpec == Init /\ [][Next]_vars /\ WF_vars(RunStep)

(* ------------- call_model on its own, for any max_retries ------------- *)
InitCall ==
    /\ api_key = TRUE
    /\ pc = "call_model"
    /\ conn = "None"
    /\ button = FALSE
    /\ user_question = <<>>
    /\ sql_prompt = NoPrompt
    /\ sql_query = None
    /\ df_result = EmptyDataFrame
    /\ result_prompt = NoPrompt
    /\ answer = None
    /\ cm = "running"
    /\ prompt \in {SqlPrompt(<<"q">>), NoResultsPrompt(<<"q">>)}
    /\ max_retries \in 1..MaxRetriesArg
    /\ attempt = 0
    /\ ret = None
    /\ waits = <<>>
    /\ warnings = <<>>
    /\ tries = <<>>
    /\ rets = <<>>
    /\ out = <<>>
    /\ calls = <<>>
    /\ submitted = <<>>
    /\ exec_outcome = "none"
    /\ runs = 0

NextCall ==
    \/ AttemptReturns
    \/ AttemptApiError
    \/ AttemptMalformed
    \/ RetriesExhausted

SpecCall == InitCall /\ [][NextCall]_vars

TypeOK ==
    /\ api_key \in BOOLEAN
    /\ pc \in {"Startup", "Halted", "Connecting", "Idle", "Rendered", "Warned",
               "BuildingSqlPrompt", "GeneratingSql", "ExecutingQuery",
               "BuildingSummaryPrompt", "GeneratingAnswer", "Done", "Failed", "call_model"}
    /\ conn \in {"open", "None"}
    /\ cm \in {"idle", "running", "returned"}
    /\ attempt \in 0..max_retries
    /\ runs \in 0..MaxRuns

(* ============================== properties ============================ *)
(* helpers of the properties; none of them is used by the actions *)
Raised(i) == tries[i].raised
AllRaised(n) == \A i \in 1..n : Raised(i)
IsBlank(q) == \A i \in 1..Len(q) : q[i] \in Whitespace
BackoffWaits(k) == [i \in 1..k |-> 2 ^ (i - 1)]
Executed == \E i \in 1..Len(calls) : calls[i].fn = "execute_sql"
HasEvent(kind, msg) == \E i \in 1..Len(out) : out[i] = Event(kind, msg)
HasKind(kind) == \E i \in 1..Len(out) : out[i].kind = kind

(* C1: when call_model has returned after k failed attempts followed by a  *)
(* successful one (k < max_retries), it returns the text of the successful *)
(* attempt, has made exactly k+1 attempts and has waited exactly           *)
(* 1, 2, ..., 2^(k-1); when all max_retries attempts failed it returns     *)
(* None.                                                                   *)
C1_RetryContract ==
    cm = "returned" =>
        LET n == Len(tries) IN
        /\ n >= 1
        /\ AllRaised(n - 1)
        /\ IF ~Raised(n)
           THEN /\ n - 1 < max_retries
                /\ ret = Str(tries[n].text)
                /\ waits = BackoffWaits(n - 1)
           ELSE /\ n = max_retries
                /\ ret = None

(* C1 witness: two failures, then a success on the third of four attempts *)
C1_Witness ==
    /\ cm = "returned"
    /\ max_retries = 4
    /\ Len(tries) = 3
    /\ Raised(1) /\ Raised(2) /\ ~Raised(3)
    /\ ret = Str("SELECT 1")
    /\ waits = <<1, 2>>

(* C2: a malformed or an empty response counts as a failed attempt         *)
(* (followed by the backoff wait), and None is returned only after all     *)
(* max_retries attempts have failed.                                       *)
C2_MalformedOrEmptyIsFailure ==
    /\ \A i \in 1..Len(tries) :
          (tries[i].cause = "malformed" \/ (~Raised(i) /\ tries[i].text = ""))
             => /\ Raised(i)
                /\ Len(waits) >= i
                /\ waits[i] = 2 ^ (i - 1)
    /\ (cm = "returned" /\ ret = None) => (Len(tries) = max_retries /\ AllRaised(max_retries))

(* C3: whatever SQL string is executed, execute_sql hands a table back to  *)
(* its caller, and when the execution raised that table has zero rows and  *)
(* zero columns; the script goes on with it.                               *)
C3_ExecutionErrorGivesEmptyTable ==
    Executed =>
        /\ pc \in {"BuildingSummaryPrompt", "GeneratingAnswer", "Done", "Failed"}
        /\ df_result = EmptyDataFrame \/ df_result \in QueryResults
        /\ HasEvent("error", "SQL execution error")
              => (df_result.columns = 0 /\ Len(df_result.rows) = 0)

(* C3 witness: a generated query was submitted and raised *)
C3_Witness ==
    /\ submitted = <<"SELECT 1">>
    /\ HasEvent("error", "SQL execution error")
    /\ df_result = EmptyDataFrame
    /\ pc = "BuildingSummaryPrompt"

(* C4: with an absent connection handle, execute_sql returns the empty     *)
(* table, reports 'Database connection is not established.' and not the    *)
(* execution-error message, and hands nothing to the database.             *)
C4_AbsentConnectionShortCircuits ==
    (conn = "None" /\ Executed) =>
        /\ df_result = EmptyDataFrame
        /\ submitted = <<>>
        /\ HasEvent("error", "Database connection is not established.")
        /\ ~HasEvent("error", "SQL execution error")

(* C4 witness: the connect failed and a generated query reached execute_sql *)
C4_Witness ==
    /\ conn = "None"
    /\ HasEvent("error", "Error connecting to PostgreSQL database")
    /\ Executed
    /\ calls[2].arg = "SELECT 1"
    /\ submitted = <<>>

(* C5: the orchestrator states follow one another in the order Idle,       *)
(* BuildingSqlPrompt, GeneratingSql, ExecutingQuery, BuildingSummaryPrompt,*)
(* GeneratingAnswer, Done; Failed is entered only from GeneratingSql or    *)
(* GeneratingAnswer and only when call_model returned None: a returned     *)
(* text, whatever it is, leads to ExecutingQuery resp. Done.               *)
PipelineOrder ==
    {<<"Idle", "BuildingSqlPrompt">>, <<"BuildingSqlPrompt", "GeneratingSql">>,
     <<"GeneratingSql", "ExecutingQuery">>, <<"ExecutingQuery", "BuildingSummaryPrompt">>,
     <<"BuildingSummaryPrompt", "GeneratingAnswer">>, <<"GeneratingAnswer", "Done">>,
     <<"GeneratingSql", "Failed">>, <<"GeneratingAnswer", "Failed">>,
     <<"Idle", "Warned">>, <<"Idle", "Rendered">>}

PipelineStates ==
    {"Idle", "BuildingSqlPrompt", "GeneratingSql", "ExecutingQuery",
     "BuildingSummaryPrompt", "GeneratingAnswer"}

C5_StateOrder ==
    [][(pc \in PipelineStates /\ pc' # pc) =>
          /\ <<pc, pc'>> \in PipelineOrder
          /\ pc' = "Failed" => ret = None
          /\ (pc = "GeneratingSql" /\ ret # None) => pc' = "ExecutingQuery"
          /\ (pc = "GeneratingAnswer" /\ ret # None) => pc' = "Done"]_vars

(* C6: once the summary prompt is built, it is the 'no results' template   *)
(* when the table has zero rows and the 'summarize' template, embedding    *)
(* every row of the table in order, when it has at least one row.          *)
C6_TemplateByRowCount ==
    pc \in {"GeneratingAnswer", "Done"} \/ (pc = "Failed" /\ Executed) =>
        /\ Len(df_result.rows) = 0 => result_prompt.template = "no_results"
        /\ Len(df_result.rows) >= 1 =>
              /\ result_prompt.template = "summarize"
              /\ result_prompt.results.body = df_result.rows
              /\ result_prompt.results.header = df_result.columns
        /\ result_prompt.question = user_question

(* C6 witness: a one-row table was summarised *)
C6_Witness ==
    /\ pc = "GeneratingAnswer"
    /\ Len(df_result.rows) = 1
    /\ df_result.columns = 1
    /\ result_prompt.template = "summarize"
    /\ result_prompt.results.body = <<<<500>>>>

(* C7: ExecutingQuery is always left for BuildingSummaryPrompt, whether    *)
(* the query executed or not, and BuildingSummaryPrompt is left for        *)
(* GeneratingAnswer with the second call of the model started on the       *)
(* prompt just built, which is the 'no results' prompt when the execution  *)
(* failed or the connection was absent.                                    *)
ExecutionFailed ==
    \/ HasEvent("error", "SQL execution error")
    \/ HasEvent("error", "Database connection is not established.")

C7_FailedExecutionContinues ==
    [][/\ (pc = "ExecutingQuery" /\ pc' # pc) => pc' = "BuildingSummaryPrompt"
       /\ (pc = "BuildingSummaryPrompt" /\ pc' # pc) =>
             /\ pc' = "GeneratingAnswer"
             /\ cm' = "running"
             /\ prompt' = result_prompt'
             /\ calls' = Append(calls, [fn |-> "call_model", arg |-> result_prompt'])
             /\ ExecutionFailed => result_prompt'.template = "no_results"]_vars

(* C7 witness: the execution raised and the second call is under way on    *)
(* the 'no results' prompt *)
C7_Witness ==
    /\ pc = "GeneratingAnswer"
    /\ HasEvent("error", "SQL execution error")
    /\ cm = "running"
    /\ attempt = 1
    /\ prompt.template = "no_results"
    /\ Len(calls) = 3

(* C8: whenever the table handed to the prompt logic has zero rows, be it  *)
(* after an execution error, with an absent connection or after a query    *)
(* that executed, the summary prompt (and the argument of the second call  *)
(* of the model) is the same value, determined by the question alone.      *)
C8_EmptyResultsIndistinguishable ==
    (Len(calls) = 3 /\ Len(df_result.rows) = 0) =>
        /\ result_prompt = NoResultsPrompt(user_question)
        /\ calls[3].arg = NoResultsPrompt(user_question)

(* C8 witness: a query that executed and returned one column and no row *)
C8_Witness ==
    /\ Len(calls) = 3
    /\ exec_outcome = "ok"
    /\ df_result = DataFrame(1, <<>>)
    /\ ~ExecutionFailed
    /\ result_prompt.template = "no_results"

(* C9: on a blank or whitespace-only question the run ends in the 'empty   *)
(* question' warning: the model is never called, no query is executed and  *)
(* neither a query, an answer nor a generation error is displayed.         *)
C9_BlankQuestionShortCircuits ==
    (button /\ IsBlank(user_question)) =>
        /\ pc \in {"Startup", "Halted", "Connecting", "Idle", "Warned"}
        /\ calls = <<>>
        /\ submitted = <<>>
        /\ rets = <<>>
        /\ cm = "idle"
        /\ ~HasKind("code") /\ ~HasKind("write")
        /\ ~HasEvent("error", "Error calling GPT API for SQL generation.")
        /\ ~HasEvent("error", "Error calling GPT API for final answer.")
        /\ pc = "Warned" <=> HasEvent("warning", "Please enter a question first.")

(* C9 witness: the button was pressed on a question that is one space *)
C9_Witness ==
    /\ button
    /\ user_question = <<" ">>
    /\ pc = "Warned"
    /\ out[Len(out)] = Event("warning", "Please enter a question first.")

(* C10: the calls of a run are, in this order, the first call of the       *)
(* model, then (only when it returned a text) one execute_sql on exactly   *)
(* that text, the empty one included, then the second call of the model;   *)
(* when the first call returned None nothing follows it.                   *)
C10_QueryPassedVerbatimOnce ==
    /\ Len(calls) <= 3
    /\ Len(calls) >= 1 => calls[1] = [fn |-> "call_model", arg |-> SqlPrompt(user_question)]
    /\ Len(calls) >= 2 =>
          /\ Len(rets) >= 1
          /\ ~rets[1].isNone
          /\ calls[2] = [fn |-> "execute_sql", arg |-> rets[1].text]
          /\ conn = "open" => submitted = <<rets[1].text>>
    /\ Len(calls) = 3 => calls[3].fn = "call_model"
    /\ Len(submitted) <= 1
    /\ (Len(rets) >= 1 /\ ~rets[1].isNone /\ pc \in {"BuildingSummaryPrompt", "GeneratingAnswer", "Done"})
          => Len(calls) >= 2
    /\ (pc \in {"Done", "Failed"} /\ Len(rets) >= 1 /\ ~rets[1].isNone) => Len(calls) = 3
    /\ (Len(rets) >= 1 /\ rets[1].isNone) =>
          /\ calls = <<[fn |-> "call_model", arg |-> SqlPrompt(user_question)]>>
          /\ submitted = <<>>
          /\ Len(rets) = 1
          /\ pc \in {"GeneratingSql", "Failed"}

(* C10 witness: the first call returned the empty text, which was executed *)
C10_Witness ==
    /\ pc = "Done"
    /\ rets[1] = Str("")
    /\ calls[2] = [fn |-> "execute_sql", arg |-> ""]
    /\ submitted = <<"">>
    /\ Len(calls) = 3

(* C11: a run shows at most one terminal output, the written answer or a   *)
(* generation-error notice, never both: none before the pipeline ends,     *)
(* exactly one in Done, which is the answer exactly as the second call of  *)
(* the model returned it, and exactly one in Failed, which is the notice   *)
(* of the stage that failed.                                               *)
SqlGenerationFailed == Event("error", "Error calling GPT API for SQL generation.")
AnswerGenerationFailed == Event("error", "Error calling GPT API for final answer.")

TerminalOutputs ==
    {i \in 1..Len(out) : \/ out[i].kind = "write"
                         \/ out[i] = SqlGenerationFailed
                         \/ out[i] = AnswerGenerationFailed}

C11_OneTerminalOutput ==
    /\ Cardinality(TerminalOutputs) <= 1
    /\ pc = "Done" =>
          /\ TerminalOutputs = {Len(out)}
          /\ Len(rets) = 2
          /\ ~rets[2].isNone
          /\ out[Len(out)] = Event("write", rets[2].text)
    /\ pc = "Failed" =>
          /\ TerminalOutputs = {Len(out)}
          /\ out[Len(out)] = IF Len(rets) = 1 THEN SqlGenerationFailed ELSE AnswerGenerationFailed
    /\ pc \notin {"Done", "Failed"} => TerminalOutputs = {}

(* C11 witness: the second call ran out of retries after a query that ran; *)
(* the only terminal output is the answer-generation notice *)
C11_Witness ==
    /\ pc = "Failed"
    /\ rets = <<Str("SELECT 1"), None>>
    /\ out[Len(out)] = AnswerGenerationFailed
    /\ ~HasKind("write")

(* C12: an attempt that received a response with the output_text field     *)
(* ends call_model with that field's value, and one that received a        *)
(* response with only the nested payload ends it with                      *)
(* output[0].content[0].text; in both cases the attempt is the last one    *)
(* and no wait follows it.                                                 *)
C12_ExtractionPrefersOutputText ==
    \A i \in 1..Len(tries) :
        LET r == tries[i].resp IN
        (tries[i].received /\ (r.has_output_text \/ r.has_nested)) =>
            /\ ~Raised(i)
            /\ i = Len(tries)
            /\ Len(waits) = i - 1
            /\ cm = "returned"
            /\ r.has_output_text => ret = Str(r.output_text)
            /\ (~r.has_output_text /\ r.has_nested) => ret = Str(r.nested_text)

(* C12 witness: after one failure, a response with both shapes that differ *)
C12_Witness ==
    /\ cm = "returned"
    /\ Len(tries) = 2
    /\ Raised(1)
    /\ tries[2].resp = Response(TRUE, "SELECT 1", TRUE, "")
    /\ ret = Str("SELECT 1")

(* the fallback alone: only the nested payload is there *)
C12_FallbackReached ==
    /\ cm = "returned"
    /\ tries[Len(tries)].resp = Response(FALSE, "", TRUE, "SELECT 1")
    /\ ret = Str("SELECT 1")

(* C13: without the API key the run stops at the key check: the database   *)
(* is never connected to, nothing but the key error is shown, no question  *)
(* is taken, the model is never called and no query is executed.  A failed *)
(* connect does not stop the run: it goes on to Idle, a non-blank question *)
(* enters the pipeline, and a query execution returns the empty table      *)
(* without reaching the database.                                          *)
ConnectFailed == HasEvent("error", "Error connecting to PostgreSQL database")
ConnectSucceeded == HasEvent("success", "Connected to PostgreSQL database successfully.")

HaltedWithoutKey ==
    ~api_key =>
        /\ pc \in {"Startup", "Halted"}
        /\ conn = "None"
        /\ ~ConnectFailed /\ ~ConnectSucceeded
        /\ out = IF pc = "Halted" THEN <<Event("error", "OPENAI_API_KEY not set")>> ELSE <<>>
        /\ ~button /\ user_question = <<>> /\ runs = 0
        /\ calls = <<>> /\ rets = <<>> /\ submitted = <<>>
        /\ cm = "idle"

DegradedWithoutConnection ==
    (ConnectFailed /\ Executed) =>
        /\ api_key
        /\ conn = "None"
        /\ df_result = EmptyDataFrame
        /\ submitted = <<>>

C13_StartupFailures ==
    /\ []HaltedWithoutKey
    /\ []DegradedWithoutConnection
    /\ [][/\ pc = "Connecting" => pc' = "Idle"
          /\ (pc = "Idle" /\ button /\ ~IsBlank(user_question) /\ pc' # pc)
                => pc' = "BuildingSqlPrompt"]_vars

(* C13 witness: the run stopped at the key check *)
C13_Witness ==
    /\ ~api_key
    /\ pc = "Halted"
    /\ out = <<Event("error", "OPENAI_API_KEY not set")>>

(* the other half: a question was answered in a run whose connect failed *)
C13_DegradedRunReached ==
    /\ pc = "Done"
    /\ ConnectFailed
    /\ Executed
    /\ df_result = EmptyDataFrame

(* C14: during and after a call of call_model there is exactly one warning *)
(* per failed attempt and none for the successful one: the i-th warning    *)
(* belongs to the i-th attempt (zero-based index i-1), which failed,       *)
(* carries its number i, its cause and the wait 2^(i-1), and that wait is  *)
(* the i-th one performed; so warnings, failed attempts and waits are      *)
(* equally many.                                                           *)
FailedAttempts == {i \in 1..Len(tries) : Raised(i)}
ModelWarnings == {i \in 1..Len(out) : out[i] = Event("warning", "Model call failed")}

C14_OneWarningPerFailure ==
    cm \in {"running", "returned"} =>
        /\ Len(warnings) = Cardinality(FailedAttempts)
        /\ Len(warnings) = Len(waits)
        /\ FailedAttempts = 1..Len(warnings)
        /\ \A i \in 1..Len(warnings) :
              /\ warnings[i].attempt = i
              /\ warnings[i].wait = 2 ^ (i - 1)
              /\ warnings[i].cause = tries[i].cause
              /\ waits[i] = warnings[i].wait
        /\ pc = "call_model" => Cardinality(ModelWarnings) = Len(warnings)

(* C14 witness: two failures of different causes, then a success *)
C14_Witness ==
    /\ cm = "returned"
    /\ Len(tries) = 3
    /\ ~Raised(3)
    /\ warnings = <<[attempt |-> 1, cause |-> "api_error", wait |-> 1],
                    [attempt |-> 2, cause |-> "malformed", wait |-> 2]>>

(* C15: when all max_retries attempts have failed, a wait followed each of *)
(* them, the last one included: the waits are 1, 2, ..., 2^(max_retries-1) *)
(* and None is returned after a total wait of 2^max_retries - 1.           *)
RECURSIVE SumSeq(_)
SumSeq(q) == IF q = <<>> THEN 0 ELSE Head(q) + SumSeq(Tail(q))

C15_WaitAfterLastFailure ==
    (Len(tries) = max_retries /\ AllRaised(max_retries)) =>
        /\ waits = BackoffWaits(max_retries)
        /\ SumSeq(waits) = 2 ^ max_retries - 1
        /\ cm = "returned" => ret = None

(* C15 witness: three failures with max_retries = 3, total wait 7 *)
C15_Witness ==
    /\ cm = "returned"
    /\ max_retries = 3
    /\ ret = None
    /\ AllRaised(3)
    /\ waits = <<1, 2, 4>>

(* C16: every question on which the button was pressed ends in Done,       *)
(* Failed or the blank-question warning.  On the way a call of call_model  *)
(* makes at most max_retries attempts, the run makes at most two calls and *)
(* so at most 2 * max_retries attempts, and at most one query execution;   *)
(* a call of call_model that has started is only left by a successful      *)
(* attempt or after max_retries failed ones, the script standing still     *)
(* meanwhile.                                                              *)
ModelCalls == {i \in 1..Len(calls) : calls[i].fn = "call_model"}
Executions == {i \in 1..Len(calls) : calls[i].fn = "execute_sql"}
TextsReturned == {i \in 1..Len(rets) : ~rets[i].isNone}
AttemptsOfRun == Cardinality(ModelWarnings) + Cardinality(TextsReturned)

BoundedWork ==
    /\ Len(tries) <= max_retries
    /\ Cardinality(ModelCalls) <= 2
    /\ AttemptsOfRun <= 2 * DefaultMaxRetries
    /\ Cardinality(Executions) <= 1
    /\ Len(submitted) <= 1

NoCancellation ==
    cm = "running" =>
        /\ pc' = pc
        /\ cm' \in {"running", "returned"}
        /\ UNCHANGED <<prompt, max_retries, uiVars, pipeVars, calls>>
        /\ cm' = "returned" =>
              \/ ~tries'[Len(tries')].raised
              \/ (Len(tries') = max_retries /\ \A i \in 1..max_retries : tries'[i].raised)

C16_BoundedTermination ==
    /\ []BoundedWork
    /\ [][NoCancellation]_vars
    /\ (pc = "Idle" /\ button) ~> (pc \in {"Done", "Failed", "Warned"})

(* C16 witness: a run that used all six attempts and one execution *)
C16_Witness ==
    /\ pc = "Failed"
    /\ rets = <<Str("SELECT 1"), None>>
    /\ AttemptsOfRun = 2 * DefaultMaxRetries
    /\ Cardinality(Executions) = 1

====
